---------------------------- MODULE Spec2Model ----------------------------
(***************************************************************************)
(* Model of the Vietnam POI single-page application (src/src/App.jsx and   *)
(* its components): the search orchestrator handleSearch with its geocode, *)
(* weather and POI requests, the POI normalisation, and the session state  *)
(* the components render.                                                  *)
(*                                                                         *)
(* JavaScript runs one continuation at a time: each action below is the    *)
(* code that runs between two awaits of handleSearch, taken atomically.    *)
(***************************************************************************)
EXTENDS Integers, Sequences, FiniteSets, TLC

(***************************************************************************)
(* Bounds of the model.                                                    *)
(***************************************************************************)
\* longest feature list an Overpass response carries
MaxFeatures == 6
\* longest query text typed into the form
MaxQueryLen == 1
\* number of handleSearch activations that can exist side by side
NumSearches == 2

(***************************************************************************)
(* JavaScript values.  A position that can hold values of several types    *)
(* holds a record naming the type: a number n is [num |-> n], a string s   *)
(* is [str |-> s] with s the sequence of its characters (or a name, where  *)
(* the characters do not matter).                                          *)
(***************************************************************************)
\* null (useState(null), JSON null)
Null == [t |-> "null"]
\* undefined: a field a JSON object does not carry
Undefined == [t |-> "undefined"]
\* the number NaN
NaN == [t |-> "NaN"]
Num(n) == [num |-> n]
Str(s) == [str |-> s]
\* a number other than NaN
IsFinite(x) == "num" \in DOMAIN x
\* typeof x === 'number'
IsNumber(x) == IsFinite(x) \/ x = NaN
\* x is a string
IsString(x) == "str" \in DOMAIN x
\* a > b on numbers: false when either is NaN
Greater(a, b) == IsFinite(a) /\ IsFinite(b) /\ a.num > b.num
Digits == {"0", "1", "2", "3", "4", "5", "6", "7", "8", "9"}
DigitValue(c) ==
  CASE c = "0" -> 0 [] c = "1" -> 1 [] c = "2" -> 2 [] c = "3" -> 3
    [] c = "4" -> 4 [] c = "5" -> 5 [] c = "6" -> 6 [] c = "7" -> 7
    [] c = "8" -> 8 [] c = "9" -> 9

\* String.prototype.trim: leading and trailing white space removed
RECURSIVE TrimLeft(_)
TrimLeft(s) == IF s # <<>> /\ Head(s) = " " THEN TrimLeft(Tail(s)) ELSE s
RECURSIVE TrimRight(_)
TrimRight(s) ==
  IF s # <<>> /\ s[Len(s)] = " " THEN TrimRight(SubSeq(s, 1, Len(s) - 1)) ELSE s
Trim(s) == TrimRight(TrimLeft(s))

\* the longest prefix of s made of digits
RECURSIVE DigitPrefix(_)
DigitPrefix(s) ==
  IF s # <<>> /\ Head(s) \in Digits THEN <<Head(s)>> \o DigitPrefix(Tail(s)) ELSE <<>>
RECURSIVE DecimalValue(_)
DecimalValue(ds) ==
  IF ds = <<>> THEN 0
  ELSE 10 * DecimalValue(SubSeq(ds, 1, Len(ds) - 1)) + DigitValue(ds[Len(ds)])
\* parseFloat on texts of white space, digits and other characters (whole
\* degrees: the texts of the model carry no sign, fraction or exponent):
\* leading white space is skipped, the longest numeric prefix is the value,
\* and a text with no numeric prefix, or a field that is no text, is NaN.
parseFloat(text) ==
  IF ~IsString(text) THEN NaN
  ELSE LET ds == DigitPrefix(TrimLeft(text.str))
       IN  IF ds = <<>> THEN NaN ELSE Num(DecimalValue(ds))

(***************************************************************************)
(* haversineDistance: great-circle distance in metres.  The trigonometric  *)
(* formula is tabulated, rounded to the metre, on the grid of whole        *)
(* degrees the model's places and features lie on (latitudes 21..22,       *)
(* longitudes at most 3 degrees apart); an argument that is NaN makes the  *)
(* result NaN, as every arithmetic operation on NaN does.                  *)
(***************************************************************************)
Abs(x) == IF x < 0 THEN -x ELSE x
HaversineMetres(lat1, lat2, dlon) ==
  CASE lat1 = lat2 /\ lat1 = 21 /\ dlon = 0 -> 0
    [] lat1 = lat2 /\ lat1 = 21 /\ dlon = 1 -> 103809
    [] lat1 = lat2 /\ lat1 = 21 /\ dlon = 2 -> 207617
    [] lat1 = lat2 /\ lat1 = 21 /\ dlon = 3 -> 311424
    [] lat1 = lat2 /\ lat1 = 22 /\ dlon = 0 -> 0
    [] lat1 = lat2 /\ lat1 = 22 /\ dlon = 1 -> 103098
    [] lat1 = lat2 /\ lat1 = 22 /\ dlon = 2 -> 206195
    [] lat1 = lat2 /\ lat1 = 22 /\ dlon = 3 -> 309289
    [] lat1 # lat2 /\ dlon = 0 -> 111195
    [] lat1 # lat2 /\ dlon = 1 -> 151879
    [] lat1 # lat2 /\ dlon = 2 -> 234896
    [] lat1 # lat2 /\ dlon = 3 -> 329681
haversineDistance(lat1, lon1, lat2, lon2) ==
  IF \E x \in {lat1, lon1, lat2, lon2} : ~IsFinite(x) THEN NaN
  ELSE Num(HaversineMetres(lat1.num, lat2.num, Abs(lon2.num - lon1.num)))

(***************************************************************************)
(* Result normaliser: name, category, weather description.                 *)
(***************************************************************************)
\* tags[field] is truthy: the field is present and not the empty string
Has(tags, field) == field \in DOMAIN tags /\ tags[field] # ""
\* buildPoiLabel with the tourism value tried before the amenity value
buildPoiLabel_TourismFirst(tags) ==
  IF Has(tags, "name") THEN tags["name"]
  ELSE IF Has(tags, "name:vi") THEN tags["name:vi"]
  ELSE IF Has(tags, "name:en") THEN tags["name:en"]
  ELSE IF Has(tags, "tourism") THEN tags["tourism"]
  ELSE IF Has(tags, "amenity") THEN tags["amenity"]
  ELSE IF Has(tags, "leisure") THEN tags["leisure"]
  ELSE "Point of interest"
buildPoiLabel(tags) ==
  IF Has(tags, "name") THEN tags["name"]
  ELSE IF Has(tags, "name:vi") THEN tags["name:vi"]
  ELSE IF Has(tags, "name:en") THEN tags["name:en"]
  ELSE IF Has(tags, "amenity") THEN tags["amenity"]
  ELSE IF Has(tags, "tourism") THEN tags["tourism"]
  ELSE IF Has(tags, "leisure") THEN tags["leisure"]
  ELSE "Point of interest"
\* the candidates with amenity put first
CategoryCandidates_AmenityFirst == <<"amenity", "tourism", "historic", "leisure", "shop">>
CategoryCandidates == <<"tourism", "amenity", "historic", "leisure", "shop">>
RECURSIVE FindField(_, _)
\* candidates.find((field) => tags[field]); "" stands for find's undefined
FindField(candidates, tags) ==
  IF candidates = <<>> THEN ""
  ELSE IF Has(tags, Head(candidates)) THEN Head(candidates)
  ELSE FindField(Tail(candidates), tags)
\* the template `${key}: ${tags[key]}` as the pair of its two parts
buildCategory(tags) ==
  LET key == FindField(CategoryCandidates, tags)
  IN  IF key # "" THEN <<key, tags[key]>> ELSE <<"Other">>
\* tags['addr:street'] || tags['addr:full'] || null
buildAddress(tags) ==
  IF Has(tags, "addr:street") THEN Str(tags["addr:street"])
  ELSE IF Has(tags, "addr:full") THEN Str(tags["addr:full"])
  ELSE Null
\* the codes of the lookup table the model's weather responses use, and one
\* code the table does not hold
describeWeatherCode(code) ==
  IF ~IsFinite(code) THEN "Weather data unavailable"
  ELSE CASE code.num = 0 -> "Clear sky"
         [] code.num = 3 -> "Overcast"
         [] code.num = 95 -> "Thunderstorm"
         [] OTHER -> "Weather data unavailable"

(***************************************************************************)
(* What the three services can answer.                                     *)
(***************************************************************************)
\* a fetch that has not settled, one that resolved with a response, and one
\* that rejected (the service is unreachable)
Pending == [kind |-> "pending", ok |-> FALSE, message |-> ""]
Response(ok) == [kind |-> "response", ok |-> ok, message |-> ""]
Rejected(message) == [kind |-> "rejected", ok |-> FALSE, message |-> message]
\* the error a rejected fetch carries: with a message, and with none
FetchOutcomes ==
  {Response(TRUE), Response(FALSE), Rejected("Failed to fetch"), Rejected("")}
\* the message of the SyntaxError response.json() rejects with
JsonSyntaxError == "Unexpected token < in JSON at position 0"
\* the message of the TypeError thrown on reading a property of null
NullTypeError == "Cannot read properties of null"

\* the best matches of the geocoder: lat and lon are texts
GeocodeMatches ==
  { [lat |-> Str(<<"2", "1">>), lon |-> Str(<<"1", "0", "5">>), display_name |-> "Hanoi"],
    [lat |-> Str(<<" ", "2", "1", "x">>), lon |-> Str(<<"1", "0", "6">>),
     display_name |-> "Hai Duong"],
    [lat |-> Str(<<"x">>), lon |-> Undefined, display_name |-> "Hanoi"] }
\* the bodies of a geocoder response: not JSON, JSON that is no list, the
\* empty list, the list [null], and a list of one match
GeocodeBodies ==
  {[kind |-> k, match |-> Undefined] : k \in {"unparsable", "notList", "empty", "nullMatch"}}
  \cup {[kind |-> "list", match |-> m] : m \in GeocodeMatches}

\* the bodies of a weather response: not JSON, JSON null, an object with no
\* current_weather block, and one with the block
WeatherBodies ==
  {[kind |-> k, weathercode |-> Undefined] : k \in {"unparsable", "jsonNull", "noCurrent"}}
  \cup {[kind |-> "current", weathercode |-> Num(3)]}

\* the features of an Overpass response, without their id: a node (direct
\* point), a way (centroid only), a record with a direct latitude but no
\* direct longitude beside its centroid, and a record with no coordinate
FeatureOf(kind) ==
  CASE kind = "node" ->
         [lat |-> Num(21), lon |-> Num(106), center |-> Undefined,
          tags |-> [amenity |-> "cafe"]]
    [] kind = "way" ->
         [lat |-> Undefined, lon |-> Undefined,
          center |-> [lat |-> Num(21), lon |-> Num(107)],
          tags |-> ("name" :> "Ho Guom" @@ "tourism" :> "attraction"
                    @@ "amenity" :> "fountain" @@ "addr:street" :> "Le Thai To")]
    [] kind = "split" ->
         [lat |-> Num(22), lon |-> Undefined,
          center |-> [lat |-> Num(21), lon |-> Num(105)],
          tags |-> [historic |-> "memorial"]]
    [] kind = "bare" ->
         [lat |-> Undefined, lon |-> Undefined, center |-> Undefined, tags |-> Undefined]
\* the kinds of well-formed features, and of records to drop or to doubt
FeatureKinds == {"node", "way"}
OddKinds == {"split", "bare"}
\* the feature lists, each as the sequence of the kinds of its features:
\* nodes, ways and odd records, the odd records of one response being of one
\* kind
FeatureLists ==
  UNION {UNION {[1..n -> FeatureKinds \cup {odd}] : n \in 0..MaxFeatures} : odd \in OddKinds}
\* the elements of a feature list: the i-th carries the id i
ElementsOf(kinds) == [i \in 1..Len(kinds) |-> [id |-> i] @@ FeatureOf(kinds[i])]
\* the bodies of an Overpass response: not JSON, JSON null, an object whose
\* elements field is no list, a list holding a null, and a list of features
PoiBodies ==
  {[kind |-> k, features |-> <<>>] : k \in {"unparsable", "jsonNull", "noElements", "nullElement"}}
  \cup {[kind |-> "elements", features |-> ks] : ks \in FeatureLists}

\* String.prototype.endsWith, on the one character the code asks for
EndsWith(s, c) == s # <<>> /\ s[Len(s)] = c
\* normalizeBaseUrl: '' for what is no string, and one trailing '/' removed
normalizeBaseUrl(rawUrl) ==
  IF ~IsString(rawUrl) THEN <<>>
  ELSE IF EndsWith(rawUrl.str, "/") THEN SubSeq(rawUrl.str, 1, Len(rawUrl.str) - 1)
  ELSE rawUrl.str
\* TRANSLATION_ENDPOINT, '' when the normalised base URL is empty
TRANSLATION_ENDPOINT(rawUrl) ==
  LET TRANSLATION_API_BASE_URL == normalizeBaseUrl(rawUrl)
  IN  IF TRANSLATION_API_BASE_URL # <<>>
      THEN TRANSLATION_API_BASE_URL \o <<"/", "t", "r", "a", "n", "s", "l", "a", "t", "e">>
      ELSE <<>>
\* the values of VITE_TRANSLATION_API_BASE_URL: not set, empty, a lone
\* slash, a base URL, and a base URL with a trailing slash
ConfiguredUrl == Str(<<"h", "/">>)
RawUrls == {Undefined, Str(<<>>), Str(<<"/">>), Str(<<"h">>), ConfiguredUrl}

\* the query texts
Queries == UNION {[1..n -> {" ", "h"}] : n \in 0..MaxQueryLen}
\* the signed-in user of the identity provider
User == [email |-> "student@example.com"]

(***************************************************************************)
(* The messages handleSearch sets.                                         *)
(***************************************************************************)
MsgSignIn == "Vui long dang nhap de tim kiem dia diem."
MsgEmptyQuery == "Please enter a location name."
MsgGeocodeStatus == "Unable to locate the place, please try again."
MsgNotFound == "No matching location found in Vietnam."
MsgPoiStatus == "Unable to fetch nearby points of interest."
MsgNoPlaces == "No notable places found within 2km of this location."
MsgFallback == "Something went wrong, please try again."

(***************************************************************************)
(* POI normalisation (the map / filter / sort / slice chain).              *)
(***************************************************************************)
\* the number of entries slice(0, 5) keeps
MaxPois == 5
\* center?.lat, center?.lon
CenterField(center, field) ==
  IF field \in DOMAIN center THEN center[field] ELSE Undefined
\* const { tags = {} } = element
TagsOf(element) == IF element.tags = Undefined THEN <<>> ELSE element.tags
ResultLat(element) ==
  IF IsNumber(element.lat) THEN element.lat ELSE CenterField(element.center, "lat")
ResultLon(element) ==
  IF IsNumber(element.lon) THEN element.lon ELSE CenterField(element.center, "lon")
\* the callback of elements.map: a POI, or null for a record to drop
FormatElement(element, latitude, longitude) ==
  LET resultLat == ResultLat(element)
      resultLon == ResultLon(element)
  IN  IF ~IsNumber(resultLat) \/ ~IsNumber(resultLon) THEN Null
      ELSE [id |-> element.id,
            name |-> buildPoiLabel(TagsOf(element)),
            category |-> buildCategory(TagsOf(element)),
            lat |-> resultLat,
            lon |-> resultLon,
            distance |-> haversineDistance(latitude, longitude, resultLat, resultLon),
            address |-> buildAddress(TagsOf(element))]
MapElements(elements, latitude, longitude) ==
  [i \in 1..Len(elements) |-> FormatElement(elements[i], latitude, longitude)]
\* .filter(Boolean)
IsTruthy(x) == x # Null
FilterBoolean(seq) == SelectSeq(seq, IsTruthy)
\* the comparator written (a, b) => b.distance - a.distance
ComparesAfter_Descending(a, b) == Greater(b.distance, a.distance)
\* the comparator (a, b) => a.distance - b.distance is positive
ComparesAfter(a, b) == Greater(a.distance, b.distance)
\* x put into the sorted sequence before the first entry that compares after
\* it: entries that compare equal (or whose difference is NaN) keep their order
RECURSIVE InsertSorted(_, _)
InsertSorted(sorted, x) ==
  IF sorted = <<>> THEN <<x>>
  ELSE IF ComparesAfter(Head(sorted), x) THEN <<x>> \o sorted
  ELSE <<Head(sorted)>> \o InsertSorted(Tail(sorted), x)
RECURSIVE SortFrom(_, _)
SortFrom(sorted, rest) ==
  IF rest = <<>> THEN sorted ELSE SortFrom(InsertSorted(sorted, Head(rest)), Tail(rest))
\* .sort((a, b) => a.distance - b.distance): Array.prototype.sort is stable
SortByDistance(seq) == SortFrom(<<>>, seq)
\* .slice(0, end)
Slice(seq, end) == SubSeq(seq, 1, IF Len(seq) < end THEN Len(seq) ELSE end)
\* the chain with slice put before sort
FormatPois_SliceBeforeSort(elements, latitude, longitude) ==
  SortByDistance(Slice(FilterBoolean(MapElements(elements, latitude, longitude)), MaxPois))
FormatPois(elements, latitude, longitude) ==
  Slice(SortByDistance(FilterBoolean(MapElements(elements, latitude, longitude))), MaxPois)

\* the WeatherSnapshot built from a current_weather block; the block's other
\* fields are the same in every response of the model
WeatherSnapshot(weathercode) ==
  [temperature |-> 25, windSpeed |-> 10, windDirection |-> 180,
   description |-> describeWeatherCode(weathercode),
   observationTime |-> "2024-01-01T12:00"]

(***************************************************************************)
(* State.                                                                  *)
(***************************************************************************)
VARIABLES
  \* the React state of App
  currentUser, isLoading, errorMessage, selectedPlace, pois, weatherInfo,
  isTranslatorOpen, isTranslating, translationResult, translationError,
  \* the module constant TRANSLATION_ENDPOINT, fixed when the module loads
  translationEndpoint,
  \* the value of isTranslatorOpen the close effect last ran for
  effectOpen,
  \* per activation of handleTranslate: the await it is suspended at, its
  \* local variables, and what it was given and did
  tpc, tloc, thist,
  \* a tag mapping given to buildPoiLabel and buildCategory, and what they
  \* returned for it
  poiTags, poiLabel, poiCategory,
  \* per activation of handleSearch: the await it is suspended at, and its
  \* local variables
  pc, loc,
  \* per activation: what it was given and what it did (the requests it
  \* issued, the responses it read), recorded for the properties
  hist

sessionVars == <<isLoading, errorMessage, selectedPlace, pois, weatherInfo>>
translatorVars ==
  <<isTranslatorOpen, isTranslating, translationResult, translationError,
    translationEndpoint, effectOpen, tpc, tloc, thist>>
searchVars == <<pc, loc, hist>>
normaliserVars == <<poiTags, poiLabel, poiCategory>>
vars == <<currentUser, sessionVars, translatorVars, searchVars, normaliserVars>>

Procs == 1..NumSearches
NoLocals ==
  [latitude |-> Undefined, longitude |-> Undefined,
   weatherResponse |-> Pending, poiResponse |-> Pending]
NoHistory ==
  [rejected |-> "", prior |-> Undefined, sent |-> {}, caught |-> FALSE,
   geocode |-> "none", match |-> Undefined,
   weatherFetch |-> "none", weatherBody |-> "none",
   poiFetch |-> "none", poiBody |-> "none", features |-> <<>>]

\* the activation record of handleTranslate
NoTranslateLocals == [status |-> 0]
NoTranslateHistory ==
  [rejected |-> "", sent |-> FALSE, entered |-> FALSE, fetch |-> "none", body |-> "none"]

\* the state after App has mounted, the module loaded with rawUrl for
\* import.meta.env.VITE_TRANSLATION_API_BASE_URL
InitWith(rawUrl) ==
  /\ currentUser = Null
  /\ isLoading = FALSE
  /\ errorMessage = ""
  /\ selectedPlace = Null
  /\ pois = <<>>
  /\ weatherInfo = Null
  /\ isTranslatorOpen = FALSE
  /\ isTranslating = FALSE
  /\ translationResult = <<>>
  /\ translationError = ""
  /\ translationEndpoint = TRANSLATION_ENDPOINT(rawUrl)
  /\ effectOpen = FALSE
  /\ tpc = [p \in Procs |-> "idle"]
  /\ tloc = [p \in Procs |-> NoTranslateLocals]
  /\ thist = [p \in Procs |-> NoTranslateHistory]
  /\ pc = [p \in Procs |-> "idle"]
  /\ loc = [p \in Procs |-> NoLocals]
  /\ hist = [p \in Procs |-> NoHistory]
\* buildPoiLabel and buildCategory have been given nothing
NoTags == [field \in {} |-> ""]
NormaliserIdle ==
  /\ poiTags = NoTags
  /\ poiLabel = ""
  /\ poiCategory = <<>>
\* the deployment with the translation service configured
Init == InitWith(ConfiguredUrl) /\ NormaliserIdle

(***************************************************************************)
(* Authentication: the onAuthStateChanged callback.                        *)
(***************************************************************************)
AuthStateChanged(firebaseUser) ==
  /\ firebaseUser # currentUser
  /\ currentUser' = firebaseUser
  /\ UNCHANGED <<sessionVars, translatorVars, searchVars, normaliserVars>>

(***************************************************************************)
(* handleSearch, one action per stretch of code between two awaits.        *)
(***************************************************************************)
\* the catch with no finally after it: the loading flag is left as it is
Caught_NoFinally(p, message, h) ==
  /\ errorMessage' = (IF message # "" THEN message ELSE MsgFallback)
  /\ pc' = [pc EXCEPT ![p] = "done"]
  /\ loc' = [loc EXCEPT ![p] = NoLocals]
  /\ hist' = [hist EXCEPT ![p] = [h EXCEPT !.caught = TRUE]]
  /\ UNCHANGED <<isLoading, selectedPlace, pois, weatherInfo>>
\* catch (error) { setErrorMessage(error.message || ...) } finally
\* { setIsLoading(false) }: h is the activation's record at the throw
Caught(p, message, h) ==
  /\ errorMessage' = (IF message # "" THEN message ELSE MsgFallback)
  /\ isLoading' = FALSE
  /\ pc' = [pc EXCEPT ![p] = "done"]
  /\ loc' = [loc EXCEPT ![p] = NoLocals]
  /\ hist' = [hist EXCEPT ![p] = [h EXCEPT !.caught = TRUE]]
  /\ UNCHANGED <<selectedPlace, pois, weatherInfo>>

\* handleSearch with the session cleared before the two validations
handleSearch_ClearsBeforeValidation(p, userQuery) ==
  /\ pc[p] \in {"idle", "done"}
  /\ pois' = <<>>
  /\ weatherInfo' = Null
  /\ IF currentUser = Null \/ Trim(userQuery) = <<>>
       THEN /\ errorMessage' = (IF currentUser = Null THEN MsgSignIn ELSE MsgEmptyQuery)
            /\ pc' = [pc EXCEPT ![p] = "done"]
            /\ hist' = [hist EXCEPT ![p] = [NoHistory EXCEPT !.rejected = "rejected"]]
            /\ UNCHANGED <<isLoading, selectedPlace>>
       ELSE /\ isLoading' = TRUE
            /\ errorMessage' = ""
            /\ pc' = [pc EXCEPT ![p] = "geocode"]
            /\ hist' = [hist EXCEPT ![p] =
                          [NoHistory EXCEPT !.prior = selectedPlace, !.sent = {"geocode"}]]
            /\ UNCHANGED selectedPlace
  /\ loc' = [loc EXCEPT ![p] = NoLocals]
  /\ UNCHANGED <<currentUser, translatorVars, normaliserVars>>

\* handleSearch with the Place cleared along with the POIs and the weather
handleSearch_ClearsPlace(p, userQuery) ==
  /\ pc[p] \in {"idle", "done"}
  /\ IF currentUser = Null \/ Trim(userQuery) = <<>>
       THEN /\ errorMessage' = (IF currentUser = Null THEN MsgSignIn ELSE MsgEmptyQuery)
            /\ pc' = [pc EXCEPT ![p] = "done"]
            /\ hist' = [hist EXCEPT ![p] =
                          [NoHistory EXCEPT !.rejected =
                             IF currentUser = Null THEN "signedOut" ELSE "emptyQuery"]]
            /\ UNCHANGED <<isLoading, selectedPlace, pois, weatherInfo>>
       ELSE /\ isLoading' = TRUE
            /\ errorMessage' = ""
            /\ pois' = <<>>
            /\ weatherInfo' = Null
            /\ selectedPlace' = Null
            /\ pc' = [pc EXCEPT ![p] = "geocode"]
            /\ hist' = [hist EXCEPT ![p] =
                          [NoHistory EXCEPT !.prior = selectedPlace, !.sent = {"geocode"}]]
  /\ loc' = [loc EXCEPT ![p] = NoLocals]
  /\ UNCHANGED <<currentUser, translatorVars, normaliserVars>>
\* The call, up to the await of the geocode fetch: the two validations, then
\* the loading state and the geocode request.
handleSearch(p, userQuery) ==
  /\ pc[p] \in {"idle", "done"}
  /\ IF currentUser = Null
       THEN /\ errorMessage' = MsgSignIn
            /\ pc' = [pc EXCEPT ![p] = "done"]
            /\ hist' = [hist EXCEPT ![p] = [NoHistory EXCEPT !.rejected = "signedOut"]]
            /\ UNCHANGED <<isLoading, selectedPlace, pois, weatherInfo>>
       ELSE IF Trim(userQuery) = <<>>
       THEN /\ errorMessage' = MsgEmptyQuery
            /\ pc' = [pc EXCEPT ![p] = "done"]
            /\ hist' = [hist EXCEPT ![p] = [NoHistory EXCEPT !.rejected = "emptyQuery"]]
            /\ UNCHANGED <<isLoading, selectedPlace, pois, weatherInfo>>
       ELSE /\ isLoading' = TRUE
            /\ errorMessage' = ""
            /\ pois' = <<>>
            /\ weatherInfo' = Null
            /\ pc' = [pc EXCEPT ![p] = "geocode"]
            /\ hist' = [hist EXCEPT ![p] =
                          [NoHistory EXCEPT !.prior = selectedPlace, !.sent = {"geocode"}]]
            /\ UNCHANGED selectedPlace
  /\ loc' = [loc EXCEPT ![p] = NoLocals]
  /\ UNCHANGED <<currentUser, translatorVars, normaliserVars>>

\* The geocode fetch settles: a rejection and a non-success status are
\* thrown; otherwise geocodeResponse.json() is awaited.
GeocodeFetchSettled(p, r) ==
  /\ pc[p] = "geocode"
  /\ IF r.kind = "rejected"
       THEN Caught(p, r.message, [hist[p] EXCEPT !.geocode = "rejected"])
       ELSE IF ~r.ok
       THEN Caught(p, MsgGeocodeStatus, [hist[p] EXCEPT !.geocode = "status"])
       ELSE /\ pc' = [pc EXCEPT ![p] = "geocodeJson"]
            /\ UNCHANGED <<sessionVars, loc, hist>>
  /\ UNCHANGED <<currentUser, translatorVars, normaliserVars>>

\* the Place setSelectedPlace is given for a match
PlaceOf(match) ==
  [lat |-> parseFloat(match.lat), lon |-> parseFloat(match.lon),
   label |-> match.display_name]

\* the error with the list check left out: geocodeData[0] of an empty list,
\* or of a body that is no list, is undefined, and destructuring it throws
GeocodeError_NoListCheck(body) ==
  CASE body.kind = "unparsable" -> JsonSyntaxError
    [] body.kind \in {"notList", "empty", "nullMatch"} -> NullTypeError
    [] body.kind = "list" -> ""
\* the message of the error that reading the geocoder's body throws, "" when
\* it throws none: json() rejects, the body is not a non-empty list, or its
\* first entry is null
GeocodeError(body) ==
  CASE body.kind = "unparsable" -> JsonSyntaxError
    [] body.kind \in {"notList", "empty"} -> MsgNotFound
    [] body.kind = "nullMatch" -> NullTypeError
    [] body.kind = "list" -> ""

\* geocodeResponse.json() settles: the list check, the Place, and the two
\* requests of the fan-out, both issued before Promise.all is awaited.
GeocodeJsonSettled(p, body) ==
  /\ pc[p] = "geocodeJson"
  /\ LET h == [hist[p] EXCEPT !.geocode = body.kind, !.match = body.match]
     IN  IF GeocodeError(body) # ""
         THEN Caught(p, GeocodeError(body), h)
         ELSE   /\ selectedPlace' = PlaceOf(body.match)
                /\ loc' = [loc EXCEPT ![p] =
                             [latitude |-> parseFloat(body.match.lat),
                              longitude |-> parseFloat(body.match.lon),
                              weatherResponse |-> Pending,
                              poiResponse |-> Pending]]
                /\ hist' = [hist EXCEPT ![p] =
                              [h EXCEPT !.prior = Undefined,
                                        !.sent = @ \cup {"weather", "poi"}]]
                /\ pc' = [pc EXCEPT ![p] = "fanout"]
                /\ UNCHANGED <<isLoading, errorMessage, pois, weatherInfo>>
  /\ UNCHANGED <<currentUser, translatorVars, normaliserVars>>

\* the code after Promise.all with the POI status check left out
FanOutJoined_NoStatusCheck(p, weatherResponse, poiResponse, h) ==
  /\ IF weatherResponse.ok
       THEN /\ pc' = [pc EXCEPT ![p] = "weatherJson"]
            /\ UNCHANGED weatherInfo
       ELSE /\ pc' = [pc EXCEPT ![p] = "poiJson"]
            /\ weatherInfo' = Null
  /\ loc' = [loc EXCEPT ![p].weatherResponse = weatherResponse,
                         ![p].poiResponse = poiResponse]
  /\ hist' = [hist EXCEPT ![p] = h]
  /\ UNCHANGED <<isLoading, errorMessage, selectedPlace, pois>>

\* The code after Promise.all resolved with both responses: the POI status
\* check, then the weather response.
FanOutJoined(p, weatherResponse, poiResponse, h) ==
  IF ~poiResponse.ok
  THEN Caught(p, MsgPoiStatus, h)
  ELSE /\ IF weatherResponse.ok
            THEN /\ pc' = [pc EXCEPT ![p] = "weatherJson"]
                 /\ UNCHANGED weatherInfo
            ELSE /\ pc' = [pc EXCEPT ![p] = "poiJson"]
                 /\ weatherInfo' = Null
       /\ loc' = [loc EXCEPT ![p].weatherResponse = weatherResponse,
                              ![p].poiResponse = poiResponse]
       /\ hist' = [hist EXCEPT ![p] = h]
       /\ UNCHANGED <<isLoading, errorMessage, selectedPlace, pois>>

\* the join replaced by a wait for the weather response alone
PromiseAll_WeatherAlone(p, weatherResponse, poiResponse, h) ==
  IF weatherResponse.kind = "response" /\ weatherResponse.ok /\ poiResponse = Pending
  THEN /\ pc' = [pc EXCEPT ![p] = "weatherJson"]
       /\ loc' = [loc EXCEPT ![p].weatherResponse = weatherResponse]
       /\ hist' = [hist EXCEPT ![p] = h]
       /\ UNCHANGED sessionVars
  ELSE IF weatherResponse.kind = "rejected"
  THEN Caught(p, weatherResponse.message, h)
  ELSE IF poiResponse.kind = "rejected"
  THEN Caught(p, poiResponse.message, h)
  ELSE IF weatherResponse.kind = "response" /\ poiResponse.kind = "response"
  THEN FanOutJoined(p, weatherResponse, poiResponse, h)
  ELSE /\ loc' = [loc EXCEPT ![p].weatherResponse = weatherResponse,
                              ![p].poiResponse = poiResponse]
       /\ hist' = [hist EXCEPT ![p] = h]
       /\ UNCHANGED <<sessionVars, pc>>
\* Promise.all([weather, poi]) with the two fetches settled as given: it
\* rejects as soon as one fetch rejects, resolves once both have resolved,
\* and stays pending otherwise.
PromiseAll(p, weatherResponse, poiResponse, h) ==
  IF weatherResponse.kind = "rejected"
  THEN Caught(p, weatherResponse.message, h)
  ELSE IF poiResponse.kind = "rejected"
  THEN Caught(p, poiResponse.message, h)
  ELSE IF weatherResponse.kind = "response" /\ poiResponse.kind = "response"
  THEN FanOutJoined(p, weatherResponse, poiResponse, h)
  ELSE /\ loc' = [loc EXCEPT ![p].weatherResponse = weatherResponse,
                              ![p].poiResponse = poiResponse]
       /\ hist' = [hist EXCEPT ![p] = h]
       /\ UNCHANGED <<sessionVars, pc>>

\* the kind a settled fetch is recorded as
FetchKind(r) ==
  IF r.kind = "rejected" THEN "rejected" ELSE IF r.ok THEN "ok" ELSE "status"

\* The weather fetch settles, before or after the POI fetch.
WeatherFetchSettled(p, r) ==
  /\ pc[p] = "fanout"
  /\ loc[p].weatherResponse = Pending
  /\ PromiseAll(p, r, loc[p].poiResponse, [hist[p] EXCEPT !.weatherFetch = FetchKind(r)])
  /\ UNCHANGED <<currentUser, translatorVars, normaliserVars>>

\* The POI fetch settles, before or after the weather fetch.
PoiFetchSettled(p, r) ==
  /\ pc[p] = "fanout"
  /\ loc[p].poiResponse = Pending
  /\ PromiseAll(p, loc[p].weatherResponse, r, [hist[p] EXCEPT !.poiFetch = FetchKind(r)])
  /\ UNCHANGED <<currentUser, translatorVars, normaliserVars>>

\* the kind a weather body is recorded as: a body that is JSON null has no
\* current_weather block either
WeatherKind(body) == IF body.kind = "jsonNull" THEN "noCurrent" ELSE body.kind

\* weatherResponse.json() settles: the snapshot, or no weather; then
\* poiResponse.json() is awaited.
WeatherJsonSettled(p, body) ==
  /\ pc[p] = "weatherJson"
  /\ LET h == [hist[p] EXCEPT !.weatherBody = WeatherKind(body)]
     IN  IF body.kind = "unparsable"
         THEN Caught(p, JsonSyntaxError, h)
         ELSE /\ weatherInfo' = (IF body.kind = "current"
                                   THEN WeatherSnapshot(body.weathercode)
                                   ELSE Null)
              /\ pc' = [pc EXCEPT ![p] = "poiJson"]
              /\ hist' = [hist EXCEPT ![p] = h]
              /\ UNCHANGED <<isLoading, errorMessage, selectedPlace, pois, loc>>
  /\ UNCHANGED <<currentUser, translatorVars, normaliserVars>>

\* the message with the check of an empty result left out
MessageAfterFormat_NoEmptyCheck(formatted, message) == message
\* if (formatted.length === 0) setErrorMessage(...): the error message after
\* the check, message being the one before it
MessageAfterFormat(formatted, message) ==
  IF Len(formatted) = 0 THEN MsgNoPlaces ELSE message

\* the last step with a guard on stale completions: an activation that is
\* not the latest started returns without publishing
PoiJsonSettled_DropsStale(p, body) ==
  /\ pc[p] = "poiJson"
  /\ LET h == [hist[p] EXCEPT !.poiBody = body.kind, !.features = body.features]
         formatted == FormatPois(ElementsOf(body.features), loc[p].latitude,
                                 loc[p].longitude)
         stale == \E q \in Procs : q > p /\ pc[q] # "idle"
     IN  IF body.kind \in {"unparsable", "jsonNull", "nullElement"}
         THEN Caught(p, JsonSyntaxError, h)
         ELSE /\ errorMessage' = (IF stale THEN errorMessage
                                   ELSE MessageAfterFormat(formatted, errorMessage))
              /\ pois' = (IF stale THEN pois ELSE formatted)
              /\ isLoading' = FALSE
              /\ pc' = [pc EXCEPT ![p] = "done"]
              /\ loc' = [loc EXCEPT ![p] = NoLocals]
              /\ hist' = [hist EXCEPT ![p] = h]
              /\ UNCHANGED <<selectedPlace, weatherInfo>>
  /\ UNCHANGED <<currentUser, translatorVars, normaliserVars>>
\* poiResponse.json() settles: normalise, rank, truncate, publish.
PoiJsonSettled(p, body) ==
  /\ pc[p] = "poiJson"
  /\ LET h == [hist[p] EXCEPT !.poiBody = body.kind, !.features = body.features]
     IN  CASE body.kind = "unparsable" -> Caught(p, JsonSyntaxError, h)
           [] body.kind \in {"jsonNull", "nullElement"} -> Caught(p, NullTypeError, h)
           [] body.kind \in {"noElements", "elements"} ->
                LET formatted == FormatPois(ElementsOf(body.features), loc[p].latitude,
                                           loc[p].longitude)
                IN  /\ errorMessage' = MessageAfterFormat(formatted, errorMessage)
                    /\ pois' = formatted
                    /\ isLoading' = FALSE
                    /\ pc' = [pc EXCEPT ![p] = "done"]
                    /\ loc' = [loc EXCEPT ![p] = NoLocals]
                    /\ hist' = [hist EXCEPT ![p] = h]
                    /\ UNCHANGED <<selectedPlace, weatherInfo>>
  /\ UNCHANGED <<currentUser, translatorVars, normaliserVars>>

(***************************************************************************)
(* The translator: the dialog, its two effects, and handleTranslate, one   *)
(* action per stretch of code between two awaits.                          *)
(***************************************************************************)
MsgTranslateSignIn == "Ban can dang nhap truoc khi su dung cong cu dich."
MsgEmptySentence == "Please enter an English sentence to translate."
MsgNotConfigured ==
  "Translation service is not configured. Please set VITE_TRANSLATION_API_BASE_URL."
MsgNoTranslation == "Translation service did not return any translated text."
MsgTranslateFallback == "Unable to translate this sentence."
\* the statuses of the non-success responses of the model
ErrorStatuses == {404, 500}
\* `Translation service returned status ${response.status}.`
StatusMessage(status) ==
  CASE status = 404 -> "Translation service returned status 404."
    [] status = 500 -> "Translation service returned status 500."

\* the sentences typed into the dialog
Sentences == UNION {[1..n -> {" ", "h"}] : n \in 0..MaxQueryLen}
\* the translation fetch: rejected with and without a message, a success
\* response, and a non-success response with its status
TranslateOutcomes ==
  {[kind |-> "rejected", status |-> 0, message |-> m] : m \in {"Failed to fetch", ""}}
  \cup {[kind |-> "ok", status |-> 200, message |-> ""]}
  \cup {[kind |-> "status", status |-> st, message |-> ""] : st \in ErrorStatuses}
\* what the fields detail and error of an error body can hold: nothing, a
\* number, the empty string, a message
DetailValues == {Undefined, Num(1), Str(""), Str("Model is loading")}
ErrorValues == {Undefined, Num(1), Str("Rate limit exceeded")}
\* the body of a non-success response: text() rejects, the text is no JSON,
\* it is empty, it is JSON null, or it is an object
ErrorBodies ==
  {[kind |-> k, detail |-> Undefined, error |-> Undefined] :
     k \in {"rejected", "unparsable", "empty", "jsonNull"}}
  \cup {[kind |-> "object", detail |-> d, error |-> e] : d \in DetailValues, e \in ErrorValues}
\* the body of a success response: no JSON, JSON null, or an object whose
\* translated_text is missing, a number, or a text
TranslationBodies ==
  {[kind |-> k, translated_text |-> Undefined] : k \in {"unparsable", "jsonNull"}}
  \cup {[kind |-> "object", translated_text |-> t] :
          t \in {Undefined, Num(1), Str(<<>>), Str(<<" ">>), Str(<<"x">>), Str(<<" ", "x", " ">>)}}

\* React runs the effects of a render before it renders again: the effect
\* on isTranslatorOpen has run for its present value when it is set anew
EffectsFlushed == effectOpen = isTranslatorOpen
\* the sign-out effect: if (!currentUser) setIsTranslatorOpen(false)
SignOutEffect ==
  /\ currentUser = Null
  /\ isTranslatorOpen
  /\ EffectsFlushed
  /\ isTranslatorOpen' = FALSE
  /\ UNCHANGED <<currentUser, sessionVars, searchVars, normaliserVars, isTranslating, translationResult,
                 translationError, translationEndpoint, effectOpen, tpc, tloc, thist>>
\* the translator button: currentUser && setIsTranslatorOpen(true)
OpenTranslator ==
  /\ currentUser # Null
  /\ ~isTranslatorOpen
  /\ EffectsFlushed
  /\ isTranslatorOpen' = TRUE
  /\ UNCHANGED <<currentUser, sessionVars, searchVars, normaliserVars, isTranslating, translationResult,
                 translationError, translationEndpoint, effectOpen, tpc, tloc, thist>>
\* onClose of the dialog: setIsTranslatorOpen(false)
CloseTranslator ==
  /\ isTranslatorOpen
  /\ EffectsFlushed
  /\ isTranslatorOpen' = FALSE
  /\ UNCHANGED <<currentUser, sessionVars, searchVars, normaliserVars, isTranslating, translationResult,
                 translationError, translationEndpoint, effectOpen, tpc, tloc, thist>>
\* the effect on isTranslatorOpen, run after it changed: a closed dialog is
\* emptied
CloseEffect ==
  /\ effectOpen # isTranslatorOpen
  /\ effectOpen' = isTranslatorOpen
  /\ IF ~isTranslatorOpen
       THEN /\ translationResult' = <<>>
            /\ translationError' = ""
            /\ isTranslating' = FALSE
       ELSE UNCHANGED <<translationResult, translationError, isTranslating>>
  /\ UNCHANGED <<currentUser, sessionVars, searchVars, normaliserVars, isTranslatorOpen,
                 translationEndpoint, tpc, tloc, thist>>

\* what a translator action leaves alone
TranslatorFrame ==
  UNCHANGED <<currentUser, sessionVars, searchVars, normaliserVars, isTranslatorOpen,
              translationEndpoint, effectOpen>>

\* catch (error) { setTranslationError(error.message || ...) } finally
\* { setIsTranslating(false) }
TranslateCaught(p, message, h) ==
  /\ translationError' = (IF message # "" THEN message ELSE MsgTranslateFallback)
  /\ isTranslating' = FALSE
  /\ tpc' = [tpc EXCEPT ![p] = "done"]
  /\ tloc' = [tloc EXCEPT ![p] = NoTranslateLocals]
  /\ thist' = [thist EXCEPT ![p] = h]
  /\ UNCHANGED translationResult

\* handleTranslate with the check of the endpoint left out
handleTranslate_NoEndpointCheck(p, englishText) ==
  /\ tpc[p] \in {"idle", "done"}
  /\ IF currentUser = Null
       THEN /\ translationError' = MsgTranslateSignIn
            /\ tpc' = [tpc EXCEPT ![p] = "done"]
            /\ thist' = [thist EXCEPT ![p] =
                           [NoTranslateHistory EXCEPT !.rejected = "signedOut"]]
            /\ UNCHANGED <<translationResult, isTranslating>>
       ELSE IF Trim(englishText) = <<>>
       THEN /\ translationError' = MsgEmptySentence
            /\ translationResult' = <<>>
            /\ tpc' = [tpc EXCEPT ![p] = "done"]
            /\ thist' = [thist EXCEPT ![p] =
                           [NoTranslateHistory EXCEPT !.rejected = "emptyText"]]
            /\ UNCHANGED isTranslating
       ELSE /\ isTranslating' = TRUE
            /\ translationError' = ""
            /\ translationResult' = <<>>
            /\ tpc' = [tpc EXCEPT ![p] = "fetch"]
            /\ thist' = [thist EXCEPT ![p] =
                           [NoTranslateHistory EXCEPT !.sent = TRUE, !.entered = TRUE]]
  /\ tloc' = [tloc EXCEPT ![p] = NoTranslateLocals]
  /\ TranslatorFrame
\* The call, up to the await of the fetch: the three validations, then the
\* translating state and the request.
handleTranslate(p, englishText) ==
  /\ tpc[p] \in {"idle", "done"}
  /\ IF currentUser = Null
       THEN /\ translationError' = MsgTranslateSignIn
            /\ tpc' = [tpc EXCEPT ![p] = "done"]
            /\ thist' = [thist EXCEPT ![p] =
                           [NoTranslateHistory EXCEPT !.rejected = "signedOut"]]
            /\ UNCHANGED <<translationResult, isTranslating>>
       ELSE IF Trim(englishText) = <<>>
       THEN /\ translationError' = MsgEmptySentence
            /\ translationResult' = <<>>
            /\ tpc' = [tpc EXCEPT ![p] = "done"]
            /\ thist' = [thist EXCEPT ![p] =
                           [NoTranslateHistory EXCEPT !.rejected = "emptyText"]]
            /\ UNCHANGED isTranslating
       ELSE IF translationEndpoint = <<>>
       THEN /\ translationError' = MsgNotConfigured
            /\ translationResult' = <<>>
            /\ tpc' = [tpc EXCEPT ![p] = "done"]
            /\ thist' = [thist EXCEPT ![p] =
                           [NoTranslateHistory EXCEPT !.rejected = "unconfigured"]]
            /\ UNCHANGED isTranslating
       ELSE /\ isTranslating' = TRUE
            /\ translationError' = ""
            /\ translationResult' = <<>>
            /\ tpc' = [tpc EXCEPT ![p] = "fetch"]
            /\ thist' = [thist EXCEPT ![p] =
                           [NoTranslateHistory EXCEPT !.sent = TRUE, !.entered = TRUE]]
  /\ tloc' = [tloc EXCEPT ![p] = NoTranslateLocals]
  /\ TranslatorFrame

\* The fetch settles: a rejection is caught; of a non-success response the
\* text is awaited, of a success response the JSON.
TranslateFetchSettled(p, r) ==
  /\ tpc[p] = "fetch"
  /\ LET h == [thist[p] EXCEPT !.fetch = r.kind]
     IN  IF r.kind = "rejected"
         THEN TranslateCaught(p, r.message, h)
         ELSE /\ tpc' = [tpc EXCEPT ![p] = IF r.kind = "ok" THEN "json" ELSE "errorText"]
              /\ tloc' = [tloc EXCEPT ![p] = [status |-> r.status]]
              /\ thist' = [thist EXCEPT ![p] = h]
              /\ UNCHANGED <<isTranslating, translationResult, translationError>>
  /\ TranslatorFrame

\* the detail read from the text of an error body: parsed.detail if it is a
\* string, else parsed.error if it is a string, else ''
ErrorDetail(body) ==
  IF body.kind # "object" THEN ""
  ELSE IF IsString(body.detail) THEN body.detail.str
  ELSE IF IsString(body.error) THEN body.error.str
  ELSE ""

\* response.text() of a non-success response settles: the detail, or the
\* status message, is thrown.
ErrorTextSettled(p, body) ==
  /\ tpc[p] = "errorText"
  /\ LET h == [thist[p] EXCEPT !.body = body.kind]
         fallback == StatusMessage(tloc[p].status)
         detail == ErrorDetail(body)
     IN  IF body.kind = "rejected"
         THEN TranslateCaught(p, "Failed to fetch", h)
         ELSE TranslateCaught(p, IF detail # "" THEN detail ELSE fallback, h)
  /\ TranslatorFrame

\* typeof data?.translated_text === 'string' ? data.translated_text.trim() : ''
TranslatedText(data) ==
  IF data.kind = "object" /\ IsString(data.translated_text)
  THEN Trim(data.translated_text.str)
  ELSE <<>>

\* response.json() of a success response settles: the translated text is
\* published, or its absence thrown.
TranslateJsonSettled(p, data) ==
  /\ tpc[p] = "json"
  /\ LET h == [thist[p] EXCEPT !.body = data.kind]
         translatedText == TranslatedText(data)
     IN  IF data.kind = "unparsable"
         THEN TranslateCaught(p, JsonSyntaxError, h)
         ELSE IF translatedText = <<>>
         THEN TranslateCaught(p, MsgNoTranslation, h)
         ELSE /\ translationResult' = translatedText
              /\ isTranslating' = FALSE
              /\ tpc' = [tpc EXCEPT ![p] = "done"]
              /\ tloc' = [tloc EXCEPT ![p] = NoTranslateLocals]
              /\ thist' = [thist EXCEPT ![p] = h]
              /\ UNCHANGED translationError
  /\ TranslatorFrame

(***************************************************************************)
(* The specification: searches come from the search form, whose controls   *)
(* are disabled while isLoading, so a call is made only when no search is  *)
(* loading; it runs as activation 1.                                       *)
(***************************************************************************)
FormSearch(userQuery) ==
  /\ ~isLoading
  /\ handleSearch(1, userQuery)

\* the activation p is suspended at the await named at
At(p, at) == pc[p] = at

Next ==
  \/ \E u \in {Null, User} : AuthStateChanged(u)
  \/ ~isLoading /\ \E q \in Queries : FormSearch(q)
  \/ At(1, "geocode") /\ \E r \in FetchOutcomes : GeocodeFetchSettled(1, r)
  \/ At(1, "geocodeJson") /\ \E b \in GeocodeBodies : GeocodeJsonSettled(1, b)
  \/ At(1, "fanout") /\ \E r \in FetchOutcomes : WeatherFetchSettled(1, r)
  \/ At(1, "fanout") /\ \E r \in FetchOutcomes : PoiFetchSettled(1, r)
  \/ At(1, "weatherJson") /\ \E b \in WeatherBodies : WeatherJsonSettled(1, b)
  \/ At(1, "poiJson") /\ \E b \in PoiBodies : PoiJsonSettled(1, b)

Spec == Init /\ [][Next]_vars

(***************************************************************************)
(* The specification of overlapping searches.  handleSubmit of the search  *)
(* form calls handleSearch whenever a user is signed in: it does not look  *)
(* at isLoading (the form only disables its controls while loading), and   *)
(* handleSearch does not look at the searches that wait.  A submit event   *)
(* can therefore start a search while another waits.  The i-th call of a   *)
(* behaviour runs as activation i, so a lower activation started earlier.  *)
(* What overlap does depends on the order of the steps, not on the size of *)
(* the responses: every fetch resolves, the geocoder and the POI service   *)
(* with a success status, geocoder bodies are an empty list or one of two  *)
(* well-formed matches, weather bodies carry a current_weather block, and  *)
(* POI bodies list one feature at most.                                    *)
(***************************************************************************)
OverlapOutcomes == {Response(TRUE)}
OverlapWeatherOutcomes == {Response(TRUE), Response(FALSE)}
OverlapGeocodeBodies ==
  {b \in GeocodeBodies : b.kind = "empty" \/ (b.kind = "list" /\ IsString(b.match.lon))}
OverlapWeatherBodies == {b \in WeatherBodies : b.kind = "current"}
OverlapPoiBodies ==
  {b \in PoiBodies : b.kind = "elements" /\ b.features \in {<<>>, <<"node">>, <<"way">>}}
\* p is the activation the next call runs as
NextActivation(p) ==
  /\ pc[p] = "idle"
  /\ \A q \in Procs : q < p => pc[q] # "idle"
\* LocationForm's handleSubmit: if (!isDisabled) onSearch?.(value)
SubmitSearch(userQuery) ==
  /\ currentUser # Null
  /\ \E p \in Procs : NextActivation(p) /\ handleSearch(p, userQuery)
OverlapNext ==
  \/ \E u \in {Null, User} : AuthStateChanged(u)
  \/ \E q \in Queries : SubmitSearch(q)
  \/ \E p \in Procs : At(p, "geocode") /\ \E r \in OverlapOutcomes : GeocodeFetchSettled(p, r)
  \/ \E p \in Procs :
        At(p, "geocodeJson") /\ \E b \in OverlapGeocodeBodies : GeocodeJsonSettled(p, b)
  \/ \E p \in Procs : At(p, "fanout") /\ \E r \in OverlapWeatherOutcomes : WeatherFetchSettled(p, r)
  \/ \E p \in Procs : At(p, "fanout") /\ \E r \in OverlapOutcomes : PoiFetchSettled(p, r)
  \/ \E p \in Procs :
        At(p, "weatherJson") /\ \E b \in OverlapWeatherBodies : WeatherJsonSettled(p, b)
  \/ \E p \in Procs : At(p, "poiJson") /\ \E b \in OverlapPoiBodies : PoiJsonSettled(p, b)
OverlapSpec == Init /\ [][OverlapNext]_vars

(***************************************************************************)
(* The specification of the translator: the dialog is opened and closed,   *)
(* the user signs in and out, and the dialog's form, rendered while the    *)
(* dialog is open and with its submit button disabled while isTranslating, *)
(* calls handleTranslate.  Closing the dialog resets isTranslating, so a   *)
(* call can be made while an earlier one is still waiting: each call runs  *)
(* as the first activation that is free.                                   *)
(***************************************************************************)
TranslatorInit == (\E rawUrl \in RawUrls : InitWith(rawUrl)) /\ NormaliserIdle
\* p is the first activation of handleTranslate that is not waiting
FirstFreeTranslation(p) ==
  /\ tpc[p] \in {"idle", "done"}
  /\ \A q \in Procs : q < p => tpc[q] \notin {"idle", "done"}
\* TranslationPopup's handleSubmit
PopupTranslate(englishText) ==
  /\ isTranslatorOpen
  /\ ~isTranslating
  /\ \E p \in Procs : FirstFreeTranslation(p) /\ handleTranslate(p, englishText)
\* the activation p of handleTranslate is suspended at the await named at
TAt(p, at) == tpc[p] = at
TranslatorNext ==
  \/ \E u \in {Null, User} : AuthStateChanged(u)
  \/ SignOutEffect
  \/ OpenTranslator
  \/ CloseTranslator
  \/ CloseEffect
  \/ \E t \in Sentences : PopupTranslate(t)
  \/ \E p \in Procs : TAt(p, "fetch") /\ \E r \in TranslateOutcomes : TranslateFetchSettled(p, r)
  \/ \E p \in Procs : TAt(p, "errorText") /\ \E b \in ErrorBodies : ErrorTextSettled(p, b)
  \/ \E p \in Procs : TAt(p, "json") /\ \E d \in TranslationBodies : TranslateJsonSettled(p, d)
TranslatorSpec == TranslatorInit /\ [][TranslatorNext]_vars

\* The specification for termination.  Whether a search ends does not depend
\* on how many features the POI response lists, so its POI responses list
\* one feature at most.
LivePoiBodies == {b \in PoiBodies : Len(b.features) <= 1}
\* a continuation of the search runs: a request it issued, or the reading
\* of a response body, has settled
Settled ==
  \/ At(1, "geocode") /\ \E r \in FetchOutcomes : GeocodeFetchSettled(1, r)
  \/ At(1, "geocodeJson") /\ \E b \in GeocodeBodies : GeocodeJsonSettled(1, b)
  \/ At(1, "fanout") /\ \E r \in FetchOutcomes : WeatherFetchSettled(1, r)
  \/ At(1, "fanout") /\ \E r \in FetchOutcomes : PoiFetchSettled(1, r)
  \/ At(1, "weatherJson") /\ \E b \in WeatherBodies : WeatherJsonSettled(1, b)
  \/ At(1, "poiJson") /\ \E b \in LivePoiBodies : PoiJsonSettled(1, b)
LiveNext ==
  \/ \E u \in {Null, User} : AuthStateChanged(u)
  \/ ~isLoading /\ \E q \in Queries : FormSearch(q)
  \/ Settled
\* Every request the search has issued settles, and so does every reading of
\* a response body: a continuation that waits is eventually run.  Nothing
\* makes the user sign in or search.
LiveSpec == Init /\ [][LiveNext]_vars /\ WF_vars(Settled)

(***************************************************************************)
(* Properties.  They speak of activation 1, the one the form's searches    *)
(* run as: in a state where it is done, the session is as its last step    *)
(* left it, but for the signed-in user.                                    *)
(***************************************************************************)
\* the activation has returned
Done(p) == pc[p] = "done"
\* the geocode step succeeded: a Place was stored and the fan-out issued
Geocoded(p) == hist[p].geocode = "list"
\* the search got its POI response with a success status, and read from it,
\* if it came to read it, a body the normaliser takes
PoiSucceeded(p) ==
  /\ hist[p].poiFetch = "ok"
  /\ hist[p].poiBody \in {"none", "noElements", "elements"}
\* the search published the POIs of its response
Published(p) == ~hist[p].caught /\ hist[p].poiBody \in {"noElements", "elements"}
\* the weather request failed: the fetch rejected, answered a non-success
\* status, or its body was no JSON or held no current_weather block
WeatherFailed(p) ==
  \/ hist[p].weatherFetch \in {"rejected", "status"}
  \/ hist[p].weatherBody \in {"unparsable", "noCurrent"}

\* the match's latitude or longitude text does not parse to a number
Malformed(match) ==
  ~IsFinite(parseFloat(match.lat)) \/ ~IsFinite(parseFloat(match.lon))
\* the geocode step succeeded on a match whose coordinates are numbers
GeocodedWell(p) == Geocoded(p) /\ ~Malformed(hist[p].match)

\* C1: a search whose geocode step succeeded (here: on a well-formed match)
\* and whose POI request succeeds is not failed by a failure of the weather
\* request, in any of its forms: it ends with the POIs published, no
\* weather, and no error message but the one for an empty result.
C1_WeatherFailureNeverFailsSearch ==
  (Done(1) /\ GeocodedWell(1) /\ WeatherFailed(1) /\ PoiSucceeded(1))
    => /\ Published(1)
       /\ weatherInfo = Null
       /\ errorMessage \in {"", MsgNoPlaces}
\* what the code does keep of C1: a weather response with a non-success
\* status, or with no current_weather block, leaves the search successful
C1_WeatherStatusDegrades ==
  (Done(1) /\ Geocoded(1) /\ PoiSucceeded(1)
     /\ (hist[1].weatherFetch = "status" \/ hist[1].weatherBody = "noCurrent"))
    => /\ Published(1)
       /\ weatherInfo = Null
       /\ errorMessage \in {"", MsgNoPlaces}

\* C2: a search that ends in a caught error, at whichever step it is thrown
\* (here: a search whose match, if it got one, is well-formed), ends with an
\* empty POI list and no weather.
C2_FailedSearchHasNoResults ==
  (Done(1) /\ hist[1].caught /\ (Geocoded(1) => GeocodedWell(1)))
    => (pois = <<>> /\ weatherInfo = Null)

\* the activation is between its validations and its return
InFlight(p) == pc[p] \notin {"idle", "done"}
\* C11: a search that passed validation leaves the loading state, whatever
\* each of its requests answers, once its requests have settled; and a step
\* that ends a search on a thrown error leaves a non-empty error message and
\* the loading flag false.
C11_SearchLeavesLoading ==
  /\ (InFlight(1) /\ isLoading) ~> (Done(1) /\ ~isLoading)
  /\ [][(InFlight(1) /\ Done(1)' /\ hist'[1].caught)
          => (errorMessage' # "" /\ ~isLoading')]_vars
\* a search ended on a rejected request whose error carries no message
C11_Witness ==
  /\ Done(1) /\ hist[1].caught /\ ~isLoading
  /\ hist[1].poiFetch = "rejected"
  /\ errorMessage = MsgFallback

\* C3: a call made signed out, or with a query that is empty once trimmed,
\* sets an error message, issues no request and awaits nothing, and leaves
\* the Place, the POI list, the weather and the loading flag as they were.
C3_RejectedCallOnlySetsError ==
  [][\A q \in Queries :
       (handleSearch(1, q) /\ (currentUser = Null \/ Trim(q) = <<>>))
         => /\ errorMessage' # ""
            /\ hist'[1].sent = {}
            /\ pc'[1] = "done"
            /\ UNCHANGED <<selectedPlace, pois, weatherInfo, isLoading>>]_vars
\* a call was rejected while the session showed a Place, POIs and weather
C3_Witness ==
  /\ Done(1) /\ hist[1].rejected \in {"signedOut", "emptyQuery"}
  /\ errorMessage \in {MsgSignIn, MsgEmptyQuery}
  /\ selectedPlace # Null /\ pois # <<>> /\ weatherInfo # Null

\* C4: when the geocoder's body is the empty list or no list, the search
\* ends with the not-found message, the Place of before the call, no POIs,
\* no weather, not loading, and only the geocode request issued.
C4_EmptyGeocodeIsNotFound ==
  (Done(1) /\ hist[1].geocode \in {"empty", "notList"})
    => /\ errorMessage = MsgNotFound
       /\ selectedPlace = hist[1].prior
       /\ pois = <<>>
       /\ weatherInfo = Null
       /\ ~isLoading
       /\ hist[1].sent = {"geocode"}
\* the geocoder found nothing while the Place of an earlier search is shown
C4_Witness ==
  /\ Done(1) /\ hist[1].geocode = "empty"
  /\ selectedPlace # Null /\ selectedPlace = hist[1].prior

\* C5: no Place with a coordinate that is not a number is ever stored, and a
\* search whose best match has a malformed latitude or longitude issues no
\* weather or POI request and ends with the not-found message.
C5_MalformedCoordinateIsNotFound ==
  /\ selectedPlace # Null => (IsFinite(selectedPlace.lat) /\ IsFinite(selectedPlace.lon))
  /\ (Geocoded(1) /\ Malformed(hist[1].match))
       => /\ hist[1].sent = {"geocode"}
          /\ Done(1) /\ errorMessage = MsgNotFound

\* C6: when the geocode step succeeded and the POI response has a
\* non-success status, the search ends with an error message (the POI one
\* when the weather fetch resolved), no POIs, no weather whatever the
\* weather response, the newly resolved Place, and not loading.
C6_PoiStatusFailsSearch ==
  (Done(1) /\ Geocoded(1) /\ hist[1].poiFetch = "status")
    => /\ errorMessage # ""
       /\ hist[1].weatherFetch \in {"ok", "status"} => errorMessage = MsgPoiStatus
       /\ pois = <<>>
       /\ weatherInfo = Null
       /\ selectedPlace = PlaceOf(hist[1].match)
       /\ ~isLoading
\* the POI response had a non-success status and the weather one a success
\* status
C6_Witness ==
  /\ Done(1) /\ Geocoded(1)
  /\ hist[1].poiFetch = "status" /\ hist[1].weatherFetch = "ok"
  /\ errorMessage = MsgPoiStatus

\* C7: in every state the POI list has at most 5 entries and no entry is
\* farther from the search centre than the entry after it.
C7_AtMostFiveInDistanceOrder ==
  /\ Len(pois) <= 5
  /\ \A i \in 1..(Len(pois) - 1) : ~Greater(pois[i].distance, pois[i + 1].distance)
\* a full list whose first and last entries lie at different distances, cut
\* from a response of more features
C7_Witness ==
  /\ Len(pois) = 5
  /\ Greater(pois[5].distance, pois[1].distance)
  /\ Done(1) /\ Len(hist[1].features) > 5

\* the elements the search read, and what the properties call their
\* coordinates: the direct point of an element, its centroid
Received == ElementsOf(hist[1].features)
HasDirectPoint(e) == IsFinite(e.lat) /\ IsFinite(e.lon)
HasNoDirectComponent(e) == ~IsFinite(e.lat) /\ ~IsFinite(e.lon)
HasCentroid(e) ==
  /\ DOMAIN e.center = {"lat", "lon"}
  /\ IsFinite(e.center.lat) /\ IsFinite(e.center.lon)
\* C8: every published POI (here: of a search around a well-formed match)
\* has numbers for coordinates, both those of its feature's direct point
\* or, for a feature with no direct point, both those of its centroid; a
\* feature with neither a direct point nor a centroid, or with one direct
\* component only, is not published.
C8_CoordinatesFromOneSource ==
  (Done(1) /\ Published(1) /\ GeocodedWell(1))
    => /\ \A i \in 1..Len(pois) :
            LET e == Received[pois[i].id]
            IN  /\ IsFinite(pois[i].lat) /\ IsFinite(pois[i].lon)
                /\ \/ /\ HasDirectPoint(e)
                      /\ pois[i].lat = e.lat /\ pois[i].lon = e.lon
                   \/ /\ HasNoDirectComponent(e) /\ HasCentroid(e)
                      /\ pois[i].lat = e.center.lat /\ pois[i].lon = e.center.lon
       /\ \A j \in 1..Len(Received) :
            LET e == Received[j]
            IN  (\/ ~HasDirectPoint(e) /\ ~HasCentroid(e)
                 \/ IsFinite(e.lat) # IsFinite(e.lon))
                  => \A i \in 1..Len(pois) : pois[i].id # j
\* what the code does keep of C8: every published coordinate is a number,
\* and a feature with neither a direct point nor a centroid is dropped
C8_NumbersAndBareDropped ==
  (Done(1) /\ Published(1))
    => /\ \A i \in 1..Len(pois) : IsFinite(pois[i].lat) /\ IsFinite(pois[i].lon)
       /\ \A j \in 1..Len(Received) :
            (HasNoDirectComponent(Received[j]) /\ ~HasCentroid(Received[j]))
              => \A i \in 1..Len(pois) : pois[i].id # j

\* a component of the coordinate a feature is listed under: the direct one
\* if it is a number, else the centroid's
UsableComponent(e, field) ==
  IF IsFinite(e[field]) THEN e[field]
  ELSE IF field \in DOMAIN e.center THEN e.center[field] ELSE Undefined
\* the features with a usable coordinate, by their place in the response
UsableIds ==
  {j \in 1..Len(Received) :
     IsFinite(UsableComponent(Received[j], "lat"))
       /\ IsFinite(UsableComponent(Received[j], "lon"))}
\* the distance of feature j from the resolved Place
DistanceOf(j) ==
  haversineDistance(selectedPlace.lat, selectedPlace.lon,
                    UsableComponent(Received[j], "lat"),
                    UsableComponent(Received[j], "lon"))
\* feature a is listed before feature b: it is nearer, or as near (neither
\* is nearer than the other) and earlier in the response
ListedBefore(a, b) ==
  \/ Greater(DistanceOf(b), DistanceOf(a))
  \/ ~Greater(DistanceOf(a), DistanceOf(b)) /\ a < b
PublishedIds == {pois[i].id : i \in 1..Len(pois)}
\* geocode, weather and POI requests all succeeded
AllSucceeded(p) ==
  /\ Done(p) /\ ~hist[p].caught /\ Geocoded(p)
  /\ hist[p].weatherBody = "current"
  /\ hist[p].poiBody = "elements"
\* C9: when geocode, weather and POI requests all succeed, the POI list is
\* the min(5, n) nearest of the n usable features, nearest first and equally
\* near ones in the order of the response, each under its own coordinate and
\* distance; no feature left out is listed before a published one; weather
\* is populated, the Place is the best match, and the error message is empty
\* when n >= 1.
C9_SuccessPublishesNearestFive ==
  AllSucceeded(1)
    => /\ Len(pois) = (IF Cardinality(UsableIds) < 5 THEN Cardinality(UsableIds) ELSE 5)
       /\ PublishedIds \subseteq UsableIds
       /\ Cardinality(PublishedIds) = Len(pois)
       /\ \A i \in 1..Len(pois) :
            /\ pois[i].lat = UsableComponent(Received[pois[i].id], "lat")
            /\ pois[i].lon = UsableComponent(Received[pois[i].id], "lon")
            /\ pois[i].distance = DistanceOf(pois[i].id)
       /\ \A i, k \in 1..Len(pois) : i < k => ListedBefore(pois[i].id, pois[k].id)
       /\ \A u \in UsableIds \ PublishedIds :
            \A i \in 1..Len(pois) : ListedBefore(pois[i].id, u)
       /\ weatherInfo # Null
       /\ weatherInfo.description = "Overcast"
       /\ selectedPlace.label = hist[1].match.display_name
       /\ selectedPlace.lat = parseFloat(hist[1].match.lat)
       /\ selectedPlace.lon = parseFloat(hist[1].match.lon)
       /\ Cardinality(UsableIds) >= 1 => errorMessage = ""
\* more than 5 usable features at three different distances, two of the
\* published ones equally near, and a nearer feature after a farther one in
\* the response
C9_Witness ==
  /\ AllSucceeded(1)
  /\ Cardinality(UsableIds) > 5
  /\ Len(pois) = 5
  /\ {"node", "way", "split"} \subseteq {hist[1].features[j] : j \in 1..Len(hist[1].features)}
  /\ \E i \in 1..4 : pois[i].distance = pois[i + 1].distance
  /\ \E i \in 1..4 : pois[i].id > pois[i + 1].id
  /\ selectedPlace = [lat |-> Num(21), lon |-> Num(106), label |-> "Hai Duong"]

\* MapView: the centre the map is drawn around, or the placeholder
MapViewCenter ==
  IF selectedPlace = Null THEN Null ELSE <<selectedPlace.lat, selectedPlace.lon>>
\* C10: when geocode and the POI request succeeded and no feature has a
\* usable coordinate, the search ends with the no-places message, the newly
\* resolved Place (the map centred on it), the weather snapshot if the
\* weather response carried one, no POIs, and not loading.
C10_EmptyResultKeepsPlace ==
  (Done(1) /\ Geocoded(1) /\ hist[1].poiBody \in {"noElements", "elements"}
     /\ UsableIds = {})
    => /\ errorMessage = MsgNoPlaces
       /\ selectedPlace = PlaceOf(hist[1].match)
       /\ MapViewCenter = <<parseFloat(hist[1].match.lat), parseFloat(hist[1].match.lon)>>
       /\ hist[1].weatherBody = "current" => weatherInfo = WeatherSnapshot(Num(3))
       /\ hist[1].weatherBody # "current" => weatherInfo = Null
       /\ pois = <<>>
       /\ ~isLoading
\* a response of features none of which has a coordinate, with weather
C10_Witness ==
  /\ Done(1) /\ Geocoded(1) /\ hist[1].poiBody = "elements"
  /\ Len(hist[1].features) >= 2 /\ UsableIds = {}
  /\ weatherInfo # Null /\ errorMessage = MsgNoPlaces
  /\ selectedPlace = [lat |-> Num(21), lon |-> Num(105), label |-> "Hanoi"]


\* C17: the call that starts a validated search sets the loading flag and
\* empties the POI list, the weather and the error message, and leaves the
\* Place; the Place changes only in the step in which a geocode succeeds; so
\* while the search waits for its geocode the session shows the Place it
\* showed at the start, no POIs and no weather, loading.
C17_StartClearsAllButPlace ==
  /\ [][\A q \in Queries :
          (FormSearch(q) /\ currentUser # Null /\ Trim(q) # <<>>)
            => /\ isLoading' /\ pois' = <<>> /\ weatherInfo' = Null /\ errorMessage' = ""
               /\ selectedPlace' = selectedPlace]_vars
  /\ [][selectedPlace' # selectedPlace
          => (At(1, "geocodeJson") /\ At(1, "fanout")' /\ Geocoded(1)')]_vars
  /\ [](pc[1] \in {"geocode", "geocodeJson"}
          => /\ selectedPlace = hist[1].prior
             /\ pois = <<>> /\ weatherInfo = Null /\ isLoading)
\* a search waits for its geocode, the Place of an earlier search shown
C17_Witness ==
  /\ At(1, "geocodeJson")
  /\ selectedPlace # Null /\ selectedPlace = hist[1].prior
  /\ pois = <<>> /\ weatherInfo = Null /\ isLoading

\* C18: a search issues its weather and POI requests together, and only
\* once its geocode step has succeeded; a response of either is read only
\* with both issued; and while the search runs, no weather and no POI is
\* published before both requests have settled, whichever settled first.
C18_FanOutJoinsBeforePublishing ==
  /\ (hist[1].sent \cap {"weather", "poi"} # {})
       => (Geocoded(1) /\ {"weather", "poi"} \subseteq hist[1].sent)
  /\ (hist[1].weatherFetch # "none" \/ hist[1].poiFetch # "none")
       => {"weather", "poi"} \subseteq hist[1].sent
  /\ (InFlight(1) /\ (weatherInfo # Null \/ pois # <<>>))
       => (hist[1].weatherFetch # "none" /\ hist[1].poiFetch # "none")
  /\ (hist[1].weatherBody # "none" \/ hist[1].poiBody # "none")
       => (hist[1].weatherFetch # "none" /\ hist[1].poiFetch # "none")
\* the POI response arrived first and the search waits for the weather
\* response, nothing published
C18_Witness ==
  /\ At(1, "fanout")
  /\ loc[1].poiResponse.kind = "response" /\ loc[1].poiResponse.ok
  /\ loc[1].weatherResponse = Pending
  /\ hist[1].sent = {"geocode", "weather", "poi"}
  /\ pois = <<>> /\ weatherInfo = Null

\* the POI list a search publishes whose record is h: the features it read,
\* ranked around its match
PoisFor(h) ==
  FormatPois(ElementsOf(h.features), PlaceOf(h.match).lat, PlaceOf(h.match).lon)
PoisOf(p) == PoisFor(hist[p])
\* C19: searches are neither serialized nor cancelled.  A validated call is
\* accepted whatever the other searches are waiting for, and leaves them as
\* they are; and every search writes the session when its responses come,
\* its Place at its geocode, its weather and its POI list at the end,
\* whatever a search started later has written in the meantime.
C19_SearchesNeitherSerializedNorCancelled ==
  [][\A p \in Procs :
       /\ \A q \in Queries :
            (handleSearch(p, q) /\ currentUser # Null /\ Trim(q) # <<>>)
              => /\ At(p, "geocode")'
                 /\ \A r \in Procs \ {p} : pc'[r] = pc[r] /\ loc'[r] = loc[r]
       /\ (At(p, "geocodeJson") /\ At(p, "fanout")')
            => selectedPlace' = PlaceOf(hist'[p].match)
       /\ (At(p, "weatherJson") /\ At(p, "poiJson")')
            => weatherInfo' = WeatherSnapshot(Num(3))
       /\ (At(p, "poiJson") /\ Done(p)' /\ Published(p)')
            => pois' = PoisFor(hist'[p])]_vars
\* the second search, started while the first waited, has published its
\* Place and its POIs, and the session shows the Place and the POIs of the
\* first, which wrote after it
C19_Witness ==
  /\ Done(1) /\ Done(2) /\ Published(1) /\ Published(2)
  /\ PlaceOf(hist[1].match) # PlaceOf(hist[2].match)
  /\ PoisOf(2) # <<>> /\ PoisOf(1) # PoisOf(2)
  /\ selectedPlace = PlaceOf(hist[1].match)
  /\ pois = PoisOf(1)
  /\ ~isLoading

\* C20: the loading flag is true in every state in which a validated search
\* has started and not yet returned, also when searches overlap.
C20_LoadingWhileAnySearchWaits ==
  (\E p \in Procs : InFlight(p)) => isLoading
\* what the code does keep of C20: with the searches of the form, one at a
\* time, the flag is true exactly while the search waits
C20_LoadingWhileTheSearchWaits ==
  InFlight(1) <=> isLoading

(***************************************************************************)
(* The specification of the name and category derivation: buildPoiLabel    *)
(* and buildCategory applied to a tag mapping, every mapping of the fields *)
(* they read (each absent, empty, or holding a value of its own) and of    *)
(* one field they do not read.                                             *)
(***************************************************************************)
TagFields ==
  {"name", "name:vi", "name:en", "amenity", "tourism", "leisure", "historic", "shop",
   "addr:street"}
\* the value the mappings of the model hold for a field
TagValue(field) ==
  CASE field = "name" -> "Ho Guom"
    [] field = "name:vi" -> "Ho Hoan Kiem"
    [] field = "name:en" -> "Sword Lake"
    [] field = "amenity" -> "fountain"
    [] field = "tourism" -> "attraction"
    [] field = "leisure" -> "park"
    [] field = "historic" -> "memorial"
    [] field = "shop" -> "books"
    [] field = "addr:street" -> "Le Thai To"
TagMaps ==
  UNION {{[field \in fields |-> IF field \in empty THEN "" ELSE TagValue(field)] :
            empty \in SUBSET (fields \ {"addr:street"})} : fields \in SUBSET TagFields}
NormaliserInit ==
  /\ InitWith(ConfiguredUrl)
  /\ poiTags \in TagMaps
  /\ poiLabel = ""
  /\ poiCategory = <<>>
\* the two derivations of the elements.map callback, applied to the mapping
Normalise ==
  /\ poiLabel = ""
  /\ poiLabel' = buildPoiLabel(poiTags)
  /\ poiCategory' = buildCategory(poiTags)
  /\ UNCHANGED <<currentUser, sessionVars, translatorVars, searchVars, poiTags>>
NormaliserNext == Normalise
NormaliserSpec == NormaliserInit /\ [][NormaliserNext]_vars

\* the mapping holds a value for the field: the field is there and not empty
Present(field) == field \in DOMAIN poiTags /\ poiTags[field] # ""
\* the first field of the order that the mapping holds a value for, 0 for none
FirstPresent(order) ==
  IF \E i \in 1..Len(order) : Present(order[i])
  THEN CHOOSE i \in 1..Len(order) :
         Present(order[i]) /\ \A j \in 1..(i - 1) : ~Present(order[j])
  ELSE 0
\* C15: the derived name is the value of the first field, in the order name,
\* name:vi, name:en, amenity, tourism, leisure, that the mapping holds a
\* value for, and is 'Point of interest' exactly when it holds none of the
\* six, whatever it holds for historic, shop or other fields.
C15_NameIsFirstPresentField ==
  LET order == <<"name", "name:vi", "name:en", "amenity", "tourism", "leisure">>
      first == FirstPresent(order)
  IN  poiLabel # ""
        => /\ first # 0 => poiLabel = poiTags[order[first]]
           /\ (first = 0) <=> (poiLabel = "Point of interest")
\* named by its amenity, before its tourism and leisure values, with no
\* name field and with historic and shop values
C15_Witness ==
  /\ poiLabel = "fountain"
  /\ ~Present("name") /\ ~Present("name:vi") /\ ~Present("name:en")
  /\ Present("tourism") /\ Present("leisure") /\ Present("historic") /\ Present("shop")

\* C16: the derived category is '<field>: <value>' for the first field, in
\* the order tourism, amenity, historic, leisure, shop, that the mapping
\* holds a value for, and is 'Other' exactly when it holds none of the five.
C16_CategoryIsFirstPresentField ==
  LET order == <<"tourism", "amenity", "historic", "leisure", "shop">>
      first == FirstPresent(order)
  IN  poiCategory # <<>>
        => /\ first # 0 => poiCategory = <<order[first], poiTags[order[first]]>>
           /\ (first = 0) <=> (poiCategory = <<"Other">>)
\* tourism wins over amenity when the mapping holds both
C16_Witness ==
  /\ Present("tourism") /\ Present("amenity")
  /\ poiCategory = <<"tourism", "attraction">>

(***************************************************************************)
(* Properties of the translator.                                           *)
(***************************************************************************)
\* the activation of handleTranslate is between its validations and its
\* return
Translating(p) == tpc[p] \notin {"idle", "done"}
\* C12: a translate call made signed out, or with a sentence that is empty
\* once trimmed, or with no endpoint configured, returns at once with a
\* translation error set, no request issued and the translating flag false.
C12_RejectedTranslateOnlySetsError ==
  [][\A p \in Procs : \A t \in Sentences :
       (/\ handleTranslate(p, t)
        /\ (currentUser = Null \/ Trim(t) = <<>> \/ translationEndpoint = <<>>))
         => /\ translationError' # ""
            /\ ~thist'[p].sent /\ ~thist'[p].entered
            /\ tpc'[p] = "done"
            /\ ~isTranslating']_vars
\* a call was rejected for the missing endpoint, the user signed in and the
\* sentence not empty
C12_Witness ==
  /\ currentUser # Null
  /\ thist[1].rejected = "unconfigured"
  /\ translationError = MsgNotConfigured
  /\ ~isTranslating /\ ~Translating(1)

\* C13: the step that ends a translate call which issued a request leaves
\* exactly one of the translation result and the translation error
\* non-empty, and the translating flag false.
C13_ExactlyOneOfResultAndError ==
  [][\A p \in Procs :
       (Translating(p) /\ ~Translating(p)')
         => /\ (translationResult' # <<>>) # (translationError' # "")
            /\ ~isTranslating']_vars
\* what the code does keep of C13: a success response whose translated text
\* is missing, no string, or empty once trimmed sets the error for it and
\* publishes no result.
C13_EmptyTextIsAnError ==
  [][\A p \in Procs : \A d \in TranslationBodies :
       (TranslateJsonSettled(p, d) /\ d.kind # "unparsable" /\ TranslatedText(d) = <<>>)
         => /\ translationError' = MsgNoTranslation
            /\ translationResult' = translationResult
            /\ ~isTranslating']_vars

\* x is a string that is not empty
UsableDetail(x) == IsString(x) /\ x.str # ""
\* C14: the error set for a non-success response is the detail field of its
\* body if that is usable, else its error field if that is usable, and the
\* status message when the body is no JSON or holds neither.
C14_FirstUsableErrorField ==
  [][\A p \in Procs : \A b \in ErrorBodies :
       (ErrorTextSettled(p, b) /\ b.kind # "rejected")
         => translationError' =
              (IF b.kind = "object" /\ UsableDetail(b.detail) THEN b.detail.str
               ELSE IF b.kind = "object" /\ UsableDetail(b.error) THEN b.error.str
               ELSE StatusMessage(tloc[p].status))]_vars
\* what the code does keep of C14: detail if it is a string, else error if
\* it is a string, an empty one counting as none
C14_FirstStringErrorField ==
  [][\A p \in Procs : \A b \in ErrorBodies :
       (ErrorTextSettled(p, b) /\ b.kind # "rejected")
         => translationError' =
              (IF b.kind = "object" /\ IsString(b.detail)
                 THEN (IF b.detail.str # "" THEN b.detail.str
                       ELSE StatusMessage(tloc[p].status))
               ELSE IF b.kind = "object" /\ UsableDetail(b.error) THEN b.error.str
               ELSE StatusMessage(tloc[p].status))]_vars

\* the dialog is closed and the effect on isTranslatorOpen has run for it
ClosedAndEmptied == ~isTranslatorOpen /\ effectOpen = isTranslatorOpen
\* C21: while the dialog is closed and its close effect has run, the
\* translation result and the translation error are empty and the
\* translating flag is false, whatever request was in flight at the close.
C21_ClosedDialogStaysEmpty ==
  ClosedAndEmptied
    => (translationResult = <<>> /\ translationError = "" /\ ~isTranslating)
\* what the code does keep of C21: the step of the close effect for a closed
\* dialog leaves the result and the error empty and the flag false, and
\* leaves every activation of handleTranslate waiting as it was
C21_CloseEffectEmpties ==
  [][(CloseEffect /\ ~isTranslatorOpen)
       => /\ translationResult' = <<>> /\ translationError' = "" /\ ~isTranslating'
          /\ tpc' = tpc]_vars
=============================================================================
